---- MODULE Spec2Model ----
(***************************************************************************)
(* Gym membership pricing (gym_system.py).                                 *)
(*                                                                         *)
(* Two specifications share the pricing operators:                         *)
(*   Spec      - calculate_total_cost called directly, as the unit tests   *)
(*               do, on arguments drawn from bounded sets (unknown plans,  *)
(*               unknown feature keys and non-positive member counts       *)
(*               included, since the engine accepts any arguments);        *)
(*   ShellSpec - run_gym_system, the interactive flow, on raw input lines. *)
(*                                                                         *)
(* Money.  total_gross is a Python int and is kept in whole units.  The    *)
(* quantities the code holds as floats (surcharge, group discount, the     *)
(* running totals, the special discount) are kept in thousandths of a unit *)
(* (Scale): 0.15 * n and 0.10 * (1.15 * n) are whole numbers of            *)
(* thousandths for every integer n, so the decimal arithmetic is exact.    *)
(* The binary64 evaluation of the same expressions differs from the        *)
(* decimal value by rounding error only (36.8 is held as                   *)
(* 36.800000000000004); for the plans, feature costs and member counts of  *)
(* this model it selects the same discount tier and truncates to the same  *)
(* integer cost as the decimal value.                                      *)
(***************************************************************************)
EXTENDS Integers, Sequences, FiniteSets, TLC

(***************************************************************************)
(* Bounds of the model.                                                    *)
(***************************************************************************)
MaxKeys == 3
MaxMembers == 4

(***************************************************************************)
(* Catalogs (module-level dictionaries).                                   *)
(***************************************************************************)
MEMBERSHIP_PLANS ==
    [p \in {"Basic", "Premium", "Family"} |->
        CASE p = "Basic" -> 50
          [] p = "Premium" -> 100
          [] p = "Family" -> 150]

ADDITIONAL_FEATURES ==
    [k \in {"1", "2", "3", "4"} |->
        CASE k = "1" -> [name |-> "Personal Training", cost |-> 30, is_premium |-> FALSE]
          [] k = "2" -> [name |-> "Group Classes", cost |-> 20, is_premium |-> FALSE]
          [] k = "3" -> [name |-> "Sauna Access", cost |-> 40, is_premium |-> TRUE]
          [] k = "4" -> [name |-> "Nutritional Plan", cost |-> 60, is_premium |-> TRUE]]

PlanNames == DOMAIN MEMBERSHIP_PLANS
FeatureKeys == DOMAIN ADDITIONAL_FEATURES

(***************************************************************************)
(* Fixed-point unit of the float quantities, and the rates and thresholds  *)
(* of calculate_total_cost expressed in it.                                *)
(***************************************************************************)
Scale == 1000
SurchargeRate == 150
GroupRate == 100
GroupMinMembers == 2
HighThreshold == 400
LowThreshold == 200
HighDiscount == 50
LowDiscount == 20

(***************************************************************************)
(* The exception both failures raise, and their messages.                  *)
(***************************************************************************)
PlanErrorKind == "ValueError"
\* variant: the catalog lookup left unguarded, so the dictionary raises
FeatureErrorKindKeyError == "KeyError"

FeatureErrorKind == "ValueError"
PlanErrorMessage == "Invalid membership plan."
FeatureErrorMessage(key) == "Invalid feature key: " \o key

NoError == [kind |-> "none", msg |-> ""]
NoFeatures == [features_cost |-> 0, selected_names |-> <<>>, has_premium |-> FALSE]
NoResult == [returned |-> FALSE]

(***************************************************************************)
(* _get_features_details: the loop over the supplied keys, left to right.  *)
(* acc is (features_cost, selected_names, has_premium) so far; the first   *)
(* key absent from the catalog raises and ends the loop.                   *)
(***************************************************************************)
\* variant: the else branch missing, unknown keys are passed over
RECURSIVE FeaturesLoopSkip(_, _)
FeaturesLoopSkip(keys, acc) ==
    IF keys = <<>>
    THEN [raised |-> FALSE, error |-> NoError, value |-> acc]
    ELSE LET key == Head(keys) IN
         IF key \in FeatureKeys
         THEN LET feat == ADDITIONAL_FEATURES[key] IN
              FeaturesLoopSkip(Tail(keys),
                  [features_cost |-> acc.features_cost + feat.cost,
                   selected_names |-> Append(acc.selected_names, feat.name),
                   has_premium |-> (acc.has_premium \/ feat.is_premium)])
         ELSE FeaturesLoopSkip(Tail(keys), acc)

RECURSIVE FeaturesLoop(_, _)
FeaturesLoop(keys, acc) ==
    IF keys = <<>>
    THEN [raised |-> FALSE, error |-> NoError, value |-> acc]
    ELSE LET key == Head(keys) IN
         IF key \in FeatureKeys
         THEN LET feat == ADDITIONAL_FEATURES[key] IN
              FeaturesLoop(Tail(keys),
                  [features_cost |-> acc.features_cost + feat.cost,
                   selected_names |-> Append(acc.selected_names, feat.name),
                   has_premium |-> (acc.has_premium \/ feat.is_premium)])
         ELSE [raised |-> TRUE,
               error |-> [kind |-> FeatureErrorKind, msg |-> FeatureErrorMessage(key)],
               value |-> NoFeatures]

GetFeaturesDetails(selected_features_keys) ==
    FeaturesLoop(selected_features_keys, NoFeatures)

(***************************************************************************)
(* The pricing stages of calculate_total_cost, in source order.            *)
(***************************************************************************)
TotalGross(base_cost, feat_cost, num_members) ==
    (base_cost + feat_cost) * num_members

Surcharge(total_gross, has_premium) ==
    IF has_premium THEN total_gross * SurchargeRate ELSE 0

TotalAfterSurcharge(total_gross, surcharge) ==
    total_gross * Scale + surcharge

\* variant: > in place of >=
GroupDiscountStrict(total_after_surcharge, num_members) ==
    IF num_members > GroupMinMembers
    THEN (total_after_surcharge * GroupRate) \div Scale
    ELSE 0

GroupDiscount(total_after_surcharge, num_members) ==
    IF num_members >= GroupMinMembers
    THEN (total_after_surcharge * GroupRate) \div Scale
    ELSE 0

TotalAfterGroup(total_after_surcharge, group_discount) ==
    total_after_surcharge - group_discount

\* variant: >= in place of >
SpecialDiscountInclusive(total_after_group) ==
    IF total_after_group >= HighThreshold * Scale THEN HighDiscount * Scale
    ELSE IF total_after_group >= LowThreshold * Scale THEN LowDiscount * Scale
    ELSE 0

SpecialDiscount(total_after_group) ==
    IF total_after_group > HighThreshold * Scale THEN HighDiscount * Scale
    ELSE IF total_after_group > LowThreshold * Scale THEN LowDiscount * Scale
    ELSE 0

\* variant: the operands of the subtraction exchanged and the clamp lost
FinalTotalReversed(total_after_group, special_discount) ==
    special_discount - total_after_group

FinalTotal(total_after_group, special_discount) ==
    IF total_after_group - special_discount > 0
    THEN total_after_group - special_discount
    ELSE 0

\* variant: round(), to the nearest integer
IntOfRounded(x) ==
    IF x >= 0 THEN (x + Scale \div 2) \div Scale ELSE 0 - ((Scale \div 2 - x) \div Scale)

\* int(): the fractional part is discarded, towards zero
IntOf(x) ==
    IF x >= 0 THEN x \div Scale ELSE 0 - ((0 - x) \div Scale)

\* variant: the group discount taken from the gross total
PriceGroupOnGross(base_cost, feats, n) ==
    LET total_gross == TotalGross(base_cost, feats.features_cost, n)
        surcharge == Surcharge(total_gross, feats.has_premium)
        total_after_surcharge == TotalAfterSurcharge(total_gross, surcharge)
        group_discount == GroupDiscount(total_gross * Scale, n)
        total_after_group == TotalAfterGroup(total_after_surcharge, group_discount)
        special_discount == SpecialDiscount(total_after_group)
        final_total == FinalTotal(total_after_group, special_discount)
    IN [returned |-> TRUE,
        cost |-> IntOf(final_total),
        details |-> [base_total |-> total_gross,
                     surcharge |-> surcharge,
                     group_discount |-> group_discount,
                     special_discount |-> special_discount,
                     features_names |-> feats.selected_names]]

(***************************************************************************)
(* Lines 71-98 of calculate_total_cost: from the resolved features to the  *)
(* returned pair (cost, details).                                          *)
(***************************************************************************)
Price(base_cost, feats, n) ==
    LET total_gross == TotalGross(base_cost, feats.features_cost, n)
        surcharge == Surcharge(total_gross, feats.has_premium)
        total_after_surcharge == TotalAfterSurcharge(total_gross, surcharge)
        group_discount == GroupDiscount(total_after_surcharge, n)
        total_after_group == TotalAfterGroup(total_after_surcharge, group_discount)
        special_discount == SpecialDiscount(total_after_group)
        final_total == FinalTotal(total_after_group, special_discount)
    IN [returned |-> TRUE,
        cost |-> IntOf(final_total),
        details |-> [base_total |-> total_gross,
                     surcharge |-> surcharge,
                     group_discount |-> group_discount,
                     special_discount |-> special_discount,
                     features_names |-> feats.selected_names]]

\* variant: the features resolved before the plan is looked up
CalculateTotalCostFeaturesFirst(plan, keys, n) ==
    LET fd == GetFeaturesDetails(keys) IN
    IF fd.raised
    THEN [raised |-> TRUE, error |-> fd.error, result |-> NoResult]
    ELSE IF plan \notin PlanNames
    THEN [raised |-> TRUE,
          error |-> [kind |-> PlanErrorKind, msg |-> PlanErrorMessage],
          result |-> NoResult]
    ELSE [raised |-> FALSE, error |-> NoError,
          result |-> Price(MEMBERSHIP_PLANS[plan], fd.value, n)]

(***************************************************************************)
(* calculate_total_cost as one call: the outcome is either a raise or the  *)
(* returned pair.                                                          *)
(***************************************************************************)
CalculateTotalCost(plan, keys, n) ==
    IF plan \notin PlanNames
    THEN [raised |-> TRUE,
          error |-> [kind |-> PlanErrorKind, msg |-> PlanErrorMessage],
          result |-> NoResult]
    ELSE LET fd == GetFeaturesDetails(keys) IN
         IF fd.raised
         THEN [raised |-> TRUE, error |-> fd.error, result |-> NoResult]
         ELSE [raised |-> FALSE, error |-> NoError,
               result |-> Price(MEMBERSHIP_PLANS[plan], fd.value, n)]

(***************************************************************************)
(* State.                                                                  *)
(*   Engine call: the arguments, whether the call is still to be made, has *)
(*   returned or has raised (pc), the exception raised (error) and the     *)
(*   returned pair (result).                                               *)
(*   Shell run: the position inside run_gym_system (sh_pc), its locals,    *)
(*   the raw lines typed so far (entered), the input() prompts issued      *)
(*   (prompts), the calls made to the engine (engine_calls), the return    *)
(*   statement taken (returned_at) and the value returned (retval).        *)
(***************************************************************************)
VARIABLES plan_name, selected_features_keys, num_members, pc, error, result,
          sh_pc, plan_choice, members, selected_keys, total_cost, details,
          entered, prompts, engine_calls, returned_at, retval

engine_vars == <<plan_name, selected_features_keys, num_members, pc, error, result>>
shell_vars == <<sh_pc, plan_choice, members, selected_keys, total_cost, details,
                entered, prompts, engine_calls, returned_at, retval>>
vars == <<engine_vars, shell_vars>>

(***************************************************************************)
(* Arguments the engine is called with.                                    *)
(***************************************************************************)
UnknownPlan == "NonExistent"
UnknownKeys == {"5", "x"}
PlanArgs == PlanNames \cup {UnknownPlan}
KeyArgs == FeatureKeys \cup UnknownKeys

RECURSIVE SeqsUpTo(_, _)
SeqsUpTo(S, n) ==
    IF n = 0 THEN {<<>>}
    ELSE LET shorter == SeqsUpTo(S, n - 1) IN
         shorter \cup {Append(q, x) : q \in shorter, x \in S}

\* selections longer than MaxKeys that land a total exactly on a threshold
LongSelections ==
    { <<"1", "1", "1", "1", "1", "1", "1", "2", "2">>,
      <<"1", "1", "1", "1", "1", "1", "1", "2", "2", "2">>,
      <<"1", "1", "1", "1", "1", "2", "2", "2", "2", "2">> }

SelectionArgs == SeqsUpTo(KeyArgs, MaxKeys) \cup LongSelections
MemberArgs == (0 - 1) .. MaxMembers

NoShell ==
    /\ sh_pc = "idle"
    /\ plan_choice = ""
    /\ members = 0
    /\ selected_keys = <<>>
    /\ total_cost = 0
    /\ details = NoResult
    /\ entered = <<>>
    /\ prompts = <<>>
    /\ engine_calls = 0
    /\ returned_at = "none"
    /\ retval = 0

NoEngine ==
    /\ plan_name = ""
    /\ selected_features_keys = <<>>
    /\ num_members = 0
    /\ pc = "idle"
    /\ error = NoError
    /\ result = NoResult

Init ==
    /\ plan_name \in PlanArgs
    /\ selected_features_keys \in SelectionArgs
    /\ num_members \in MemberArgs
    /\ pc = "call"
    /\ error = NoError
    /\ result = NoResult
    /\ NoShell

(***************************************************************************)
(* A call of calculate_total_cost on the drawn arguments.                  *)
(***************************************************************************)
Call ==
    /\ pc = "call"
    /\ LET out == CalculateTotalCost(plan_name, selected_features_keys, num_members) IN
       /\ pc' = IF out.raised THEN "raised" ELSE "returned"
       /\ error' = out.error
       /\ result' = out.result
    /\ UNCHANGED <<plan_name, selected_features_keys, num_members>>
    /\ UNCHANGED shell_vars

Next == Call

Spec == Init /\ [][Next]_vars

(***************************************************************************)
(* Text handling of the shell.  A line is a string; Char(s, i) is its      *)
(* i-th character.                                                         *)
(***************************************************************************)
Char(s, i) == SubSeq(s, i, i)

IsSpace(c) == c \in {" ", "\t"}

RECURSIVE LStrip(_)
LStrip(s) ==
    IF Len(s) = 0 THEN s
    ELSE IF IsSpace(Char(s, 1)) THEN LStrip(SubSeq(s, 2, Len(s)))
    ELSE s

RECURSIVE RStrip(_)
RStrip(s) ==
    IF Len(s) = 0 THEN s
    ELSE IF IsSpace(Char(s, Len(s))) THEN RStrip(SubSeq(s, 1, Len(s) - 1))
    ELSE s

\* str.strip()
Strip(s) == RStrip(LStrip(s))

UpperLetters == "ABCDEFGHIJKLMNOPQRSTUVWXYZ"
LowerLetters == "abcdefghijklmnopqrstuvwxyz"

LowerChar(c) ==
    IF \E i \in 1..Len(UpperLetters) : Char(UpperLetters, i) = c
    THEN Char(LowerLetters, CHOOSE i \in 1..Len(UpperLetters) : Char(UpperLetters, i) = c)
    ELSE c

\* str.lower()
RECURSIVE Lower(_)
Lower(s) ==
    IF Len(s) = 0 THEN s
    ELSE LowerChar(Char(s, 1)) \o Lower(SubSeq(s, 2, Len(s)))

\* str.split(','): the pieces between the commas, empty pieces kept
RECURSIVE SplitFrom(_, _, _)
SplitFrom(s, piece, done) ==
    IF Len(s) = 0 THEN Append(done, piece)
    ELSE IF Char(s, 1) = ","
         THEN SplitFrom(SubSeq(s, 2, Len(s)), "", Append(done, piece))
         ELSE SplitFrom(SubSeq(s, 2, Len(s)), piece \o Char(s, 1), done)

Split(s) == SplitFrom(s, "", <<>>)

Digits == "0123456789"
IsDigit(c) == \E i \in 1..Len(Digits) : Char(Digits, i) = c
DigitValue(c) == (CHOOSE i \in 1..Len(Digits) : Char(Digits, i) = c) - 1

\* the digits of an integer literal: digits, single underscores between them
IsDigitString(s) ==
    /\ Len(s) > 0
    /\ IsDigit(Char(s, 1))
    /\ IsDigit(Char(s, Len(s)))
    /\ \A i \in 1..Len(s) : IsDigit(Char(s, i)) \/ Char(s, i) = "_"
    /\ \A i \in 1..(Len(s) - 1) : ~(Char(s, i) = "_" /\ Char(s, i + 1) = "_")

RECURSIVE DigitsValue(_, _)
DigitsValue(s, acc) ==
    IF Len(s) = 0 THEN acc
    ELSE IF Char(s, 1) = "_" THEN DigitsValue(SubSeq(s, 2, Len(s)), acc)
    ELSE DigitsValue(SubSeq(s, 2, Len(s)), acc * 10 + DigitValue(Char(s, 1)))

\* int(str): surrounding whitespace ignored, optional sign, decimal digits;
\* anything else raises ValueError (ok = FALSE)
ParseInt(line) ==
    LET s == Strip(line)
        signed == Len(s) > 0 /\ Char(s, 1) \in {"+", "-"}
        body == IF signed THEN SubSeq(s, 2, Len(s)) ELSE s
    IN IF IsDigitString(body)
       THEN [ok |-> TRUE,
             value |-> IF signed /\ Char(s, 1) = "-"
                       THEN 0 - DigitsValue(body, 0)
                       ELSE DigitsValue(body, 0)]
       ELSE [ok |-> FALSE, value |-> 0]

(***************************************************************************)
(* The input functions of the shell.  A return of None is none = TRUE.     *)
(***************************************************************************)
None == [none |-> TRUE]
Some(v) == [none |-> FALSE, value |-> v]

\* get_user_input_plan
GetUserInputPlan(line) ==
    LET plan == Strip(line) IN
    IF plan \notin PlanNames THEN None ELSE Some(plan)

\* get_user_input_members
GetUserInputMembers(line) ==
    LET parsed == ParseInt(line) IN
    IF ~parsed.ok THEN None
    ELSE IF parsed.value < 1 THEN None
    ELSE Some(parsed.value)

\* the list comprehension of get_user_input_features
SelectedKeys(line) ==
    LET f_input == Strip(line) IN
    IF Len(f_input) > 0
    THEN [i \in 1..Len(Split(f_input)) |-> Strip(Split(f_input)[i])]
    ELSE <<>>

\* variant: empty pieces are not validated
GetUserInputFeaturesSkipEmpty(line) ==
    LET keys == SelectedKeys(line) IN
    IF \E i \in 1..Len(keys) : Len(keys[i]) > 0 /\ keys[i] \notin FeatureKeys
    THEN None
    ELSE Some(keys)

\* get_user_input_features
GetUserInputFeatures(line) ==
    LET keys == SelectedKeys(line) IN
    IF \E i \in 1..Len(keys) : keys[i] \notin FeatureKeys
    THEN None
    ELSE Some(keys)

(***************************************************************************)
(* Lines the user may type at each prompt.                                 *)
(***************************************************************************)
PlanLines == {"Basic", " Premium ", "Family", "basic", "Gold", ""}
MemberLines == {"1", "2", " 3 ", "+4", "1_0", "0", "-1", "two", "2.5", ""}
FeatureLines == {"", "  ", "1", "1,3", " 2 , 4 ", "3,3", "1,,3", "5", "1,5", ",", "1;2"}
ConfirmLines == {"yes", "y", "YES", "Y", "Yes", "no", "n", "", " yes", "yeah"}

ShellInit ==
    /\ NoEngine
    /\ sh_pc = "plan"
    /\ plan_choice = ""
    /\ members = 0
    /\ selected_keys = <<>>
    /\ total_cost = 0
    /\ details = NoResult
    /\ entered = <<>>
    /\ prompts = <<>>
    /\ engine_calls = 0
    /\ returned_at = "none"
    /\ retval = 0

\* a return statement of run_gym_system
Return(at, value) ==
    /\ sh_pc' = "done"
    /\ returned_at' = at
    /\ retval' = value

(***************************************************************************)
(* run_gym_system, step 1 (lines 174-176).                                 *)
(***************************************************************************)
AskPlan ==
    /\ sh_pc = "plan"
    /\ \E line \in PlanLines :
        /\ entered' = Append(entered, line)
        /\ prompts' = Append(prompts, "plan")
        /\ LET got == GetUserInputPlan(line) IN
           IF got.none \/ got.value = ""
           THEN /\ Return("plan", 0 - 1)
                /\ UNCHANGED plan_choice
           ELSE /\ plan_choice' = got.value
                /\ sh_pc' = "members"
                /\ UNCHANGED <<returned_at, retval>>
    /\ UNCHANGED <<members, selected_keys, total_cost, details, engine_calls>>
    /\ UNCHANGED engine_vars

(***************************************************************************)
(* run_gym_system, step 2 (lines 179-181).                                 *)
(***************************************************************************)
AskMembers ==
    /\ sh_pc = "members"
    /\ \E line \in MemberLines :
        /\ entered' = Append(entered, line)
        /\ prompts' = Append(prompts, "members")
        /\ LET got == GetUserInputMembers(line) IN
           IF got.none \/ got.value = 0
           THEN /\ Return("members", 0 - 1)
                /\ UNCHANGED members
           ELSE /\ members' = got.value
                /\ sh_pc' = "features"
                /\ UNCHANGED <<returned_at, retval>>
    /\ UNCHANGED <<plan_choice, selected_keys, total_cost, details, engine_calls>>
    /\ UNCHANGED engine_vars

(***************************************************************************)
(* run_gym_system, step 3 (lines 184-186).                                 *)
(***************************************************************************)
AskFeatures ==
    /\ sh_pc = "features"
    /\ \E line \in FeatureLines :
        /\ entered' = Append(entered, line)
        /\ prompts' = Append(prompts, "features")
        /\ LET got == GetUserInputFeatures(line) IN
           IF got.none
           THEN /\ Return("features", 0 - 1)
                /\ UNCHANGED selected_keys
           ELSE /\ selected_keys' = got.value
                /\ sh_pc' = "calc"
                /\ UNCHANGED <<returned_at, retval>>
    /\ UNCHANGED <<plan_choice, members, total_cost, details, engine_calls>>
    /\ UNCHANGED engine_vars

(***************************************************************************)
(* run_gym_system, step 4 (lines 189-193): the engine call and its except  *)
(* branch.                                                                 *)
(***************************************************************************)
Calculate ==
    /\ sh_pc = "calc"
    /\ engine_calls' = engine_calls + 1
    /\ LET out == CalculateTotalCost(plan_choice, selected_keys, members) IN
       IF out.raised
       THEN /\ Return("calc_error", 0 - 1)
            /\ UNCHANGED <<total_cost, details>>
       ELSE /\ total_cost' = out.result.cost
            /\ details' = out.result.details
            /\ sh_pc' = "confirm"
            /\ UNCHANGED <<returned_at, retval>>
    /\ UNCHANGED <<plan_choice, members, selected_keys, entered, prompts>>
    /\ UNCHANGED engine_vars

\* variant: the answer compared without lower()
ConfirmPurchaseCaseSensitive(line) == line \in {"yes", "y"}

\* confirm_purchase: the answer read and tested
ConfirmPurchase(line) == Lower(line) \in {"yes", "y"}

(***************************************************************************)
(* run_gym_system, step 5 (lines 196-199).                                 *)
(***************************************************************************)
Confirm ==
    /\ sh_pc = "confirm"
    /\ \E line \in ConfirmLines :
        /\ entered' = Append(entered, line)
        /\ prompts' = Append(prompts, "confirm")
        /\ IF ConfirmPurchase(line)
           THEN Return("confirmed", total_cost)
           ELSE Return("canceled", 0 - 1)
    /\ UNCHANGED <<plan_choice, members, selected_keys, total_cost, details, engine_calls>>
    /\ UNCHANGED engine_vars

ShellNext == AskPlan \/ AskMembers \/ AskFeatures \/ Calculate \/ Confirm

ShellSpec == ShellInit /\ [][ShellNext]_vars

(***************************************************************************)
(* Properties of calculate_total_cost (specification Spec).                *)
(* Amounts in the properties are written with the figures of the           *)
(* requirements (15 %, 10 %, 200, 400, 20, 50), not with the constants of  *)
(* the model.                                                              *)
(***************************************************************************)
KeysAllKnown == \A i \in 1..Len(selected_features_keys) : selected_features_keys[i] \in FeatureKeys
ValidArgs == plan_name \in PlanNames /\ KeysAllKnown /\ num_members >= 1
ValidReturn == ValidArgs /\ pc = "returned"
HasDuplicateKey ==
    \E i, j \in 1..Len(selected_features_keys) :
        i < j /\ selected_features_keys[i] = selected_features_keys[j]

Units(n) == n * 1000
PercentOf(p, x) == (x * p) \div 100
Max0(x) == IF x > 0 THEN x ELSE 0

RECURSIVE SumOfCosts(_)
SumOfCosts(keys) ==
    IF keys = <<>> THEN 0
    ELSE ADDITIONAL_FEATURES[Head(keys)].cost + SumOfCosts(Tail(keys))

AnyPremium(keys) == \E i \in 1..Len(keys) : keys[i] \in {"3", "4"}
Tier(after_group) ==
    IF after_group > Units(400) THEN Units(50)
    ELSE IF after_group > Units(200) THEN Units(20)
    ELSE 0

\* the running total after the group discount, from the returned breakdown
AfterGroup ==
    Units(result.details.base_total) + result.details.surcharge
        - result.details.group_discount
\* the clamped total before truncation
PreTruncation == Max0(AfterGroup - result.details.special_discount)

Scenario(plan, keys, n, cost) ==
    (pc = "returned" /\ plan_name = plan /\ selected_features_keys = keys /\ num_members = n)
        => result.cost = cost

\* C1: for a catalog plan, known feature keys (duplicates allowed) and a
\* member count >= 1, the call returns and the returned cost is >= 0.
C1_CostNonNegative ==
    (ValidArgs /\ pc # "call") => (pc = "returned" /\ result.cost >= 0)

C1_Witness ==
    /\ ValidReturn
    /\ HasDuplicateKey
    /\ num_members >= 2
    /\ result.details.special_discount = Units(50)
    /\ result.cost > 0

\* C2: the stages are computed in the fixed order, each on the running
\* total of the previous one: feature cost summed per key occurrence, gross =
\* (plan base + feature cost) * members, surcharge 15 % of gross, group
\* discount 10 % of gross + surcharge, special discount chosen on the total
\* after the group discount; the breakdown carries these amounts and the
\* feature names in supplied order, the cost is the integer part of
\* max(0, after_group - special_discount); the seven listed scenarios give
\* 50, 120, 90, 103, 250, 490 and 311.
C2_StagesInOrder ==
    /\ ValidReturn =>
         LET gross == (MEMBERSHIP_PLANS[plan_name] + SumOfCosts(selected_features_keys))
                          * num_members
             surcharge == IF AnyPremium(selected_features_keys)
                          THEN PercentOf(15, Units(gross)) ELSE 0
             group == IF num_members >= 2
                      THEN PercentOf(10, Units(gross) + surcharge) ELSE 0
             after_group == Units(gross) + surcharge - group
             special == Tier(after_group)
         IN /\ result.details =
                  [base_total |-> gross,
                   surcharge |-> surcharge,
                   group_discount |-> group,
                   special_discount |-> special,
                   features_names |->
                       [i \in 1..Len(selected_features_keys) |->
                           ADDITIONAL_FEATURES[selected_features_keys[i]].name]]
            /\ result.cost = Max0(after_group - special) \div 1000
    /\ Scenario("Basic", <<>>, 1, 50)
    /\ Scenario("Premium", <<"2">>, 1, 120)
    /\ Scenario("Basic", <<>>, 2, 90)
    /\ Scenario("Basic", <<"3">>, 1, 103)
    /\ Scenario("Family", <<>>, 2, 250)
    /\ Scenario("Family", <<>>, 4, 490)
    /\ Scenario("Premium", <<"4">>, 2, 311)

C2_Witness ==
    /\ ValidReturn
    /\ HasDuplicateKey
    /\ num_members >= 2
    /\ result.details.surcharge > 0
    /\ result.details.group_discount = PercentOf(10, Units(result.details.base_total)
                                                       + result.details.surcharge)
    /\ result.details.special_discount > 0
    /\ Len(result.details.features_names) = 2

\* C3: the special discount is exactly one of 0, 20, 50, decided on the
\* total after the group discount with strict comparisons: 50 iff it is
\* > 400, 20 iff it is > 200 and <= 400, 0 iff it is <= 200.  Family with
\* features 1 and 2 for one member (exactly 200) costs 200; Basic with
\* feature 2 for three members (gross 210, after group 189) costs 189.
C3_SpecialDiscountTiers ==
    /\ ValidReturn =>
         LET special == result.details.special_discount IN
         /\ special \in {0, Units(20), Units(50)}
         /\ (special = Units(50)) <=> (AfterGroup > Units(400))
         /\ (special = Units(20)) <=> (AfterGroup > Units(200) /\ AfterGroup <= Units(400))
         /\ (special = 0) <=> (AfterGroup <= Units(200))
    /\ Scenario("Family", <<"1", "2">>, 1, 200)
    /\ Scenario("Basic", <<"2">>, 3, 189)
    /\ (pc = "returned" /\ plan_name = "Basic" /\ selected_features_keys = <<"2">>
            /\ num_members = 3)
          => (result.details.base_total = 210 /\ result.details.special_discount = 0)

C3_Witness ==
    /\ ValidReturn
    /\ AfterGroup = Units(400)
    /\ result.details.special_discount = Units(20)
    /\ result.cost = 380

\* C4: the group discount is non-zero iff member_count >= 2; the surcharge
\* is non-zero iff some supplied key is a premium feature (3 or 4), whatever
\* the plan, and it is 15 % of gross once however many premium features are
\* selected.
C4_GroupAndSurchargeIff ==
    ValidReturn =>
        /\ (result.details.group_discount # 0) <=> (num_members >= 2)
        /\ (result.details.surcharge # 0) <=> AnyPremium(selected_features_keys)
        /\ result.details.surcharge \in {0, PercentOf(15, Units(result.details.base_total))}

C4_Witness ==
    /\ ValidReturn
    /\ num_members = 2
    /\ result.details.group_discount > 0
    /\ \E i, j \in 1..Len(selected_features_keys) :
          i # j /\ selected_features_keys[i] \in {"3", "4"}
                /\ selected_features_keys[j] \in {"3", "4"}
    /\ result.details.surcharge = PercentOf(15, Units(result.details.base_total))

\* C5: the returned cost c is the clamped pre-truncation total with its
\* fractional part discarded: c <= total < c + 1, also when the fractional
\* part is >= 0.5 (103.5 gives 103).
C5_Truncation ==
    /\ ValidReturn =>
         /\ Units(result.cost) <= PreTruncation
         /\ PreTruncation < Units(result.cost + 1)
    /\ Scenario("Basic", <<"3">>, 1, 103)
    /\ (pc = "returned" /\ plan_name = "Basic" /\ selected_features_keys = <<"3">>
            /\ num_members = 1)
          => PreTruncation = 103500

C5_Witness ==
    /\ ValidReturn
    /\ PreTruncation % 1000 >= 500
    /\ Units(result.cost) = PreTruncation - (PreTruncation % 1000)

\* C6: with a plan name outside the catalog the call raises the invalid-plan
\* error whatever the keys (unknown ones included) and the member count,
\* and produces no cost and no breakdown.
C6_UnknownPlanFails ==
    (plan_name \notin PlanNames /\ pc # "call") =>
        /\ pc = "raised"
        /\ error = [kind |-> "ValueError", msg |-> "Invalid membership plan."]
        /\ result = NoResult

C6_Witness ==
    /\ pc = "raised"
    /\ plan_name \notin PlanNames
    /\ ~KeysAllKnown
    /\ num_members < 1
    /\ error.msg = "Invalid membership plan."
    /\ result = NoResult

FirstUnknownIndex ==
    CHOOSE i \in 1..Len(selected_features_keys) :
        /\ selected_features_keys[i] \notin FeatureKeys
        /\ \A j \in 1..(i - 1) : selected_features_keys[j] \in FeatureKeys

\* C7: with a catalog plan and any member count, keys containing a key
\* outside the feature catalog make the call raise the invalid-feature-key
\* error naming the first unknown key in supplied order, wherever it stands;
\* no cost or breakdown is returned.
C7_UnknownKeyFails ==
    (plan_name \in PlanNames /\ ~KeysAllKnown /\ pc # "call") =>
        /\ pc = "raised"
        /\ error.msg = "Invalid feature key: " \o selected_features_keys[FirstUnknownIndex]
        /\ error.msg # "Invalid membership plan."
        /\ result = NoResult

C7_Witness ==
    /\ pc = "raised"
    /\ plan_name \in PlanNames
    /\ Len(selected_features_keys) = 3
    /\ selected_features_keys[1] \in FeatureKeys
    /\ selected_features_keys[2] = "x"
    /\ selected_features_keys[3] = "5"
    /\ error.msg = "Invalid feature key: x"

PromptOrder == <<"plan", "members", "features", "confirm">>
IsPrefix(p, q) == Len(p) <= Len(q) /\ \A i \in 1..Len(p) : p[i] = q[i]

\* what the user typed, judged on the raw lines
PlanAccepted == Len(entered) >= 1 /\ Strip(entered[1]) \in PlanNames
MembersAccepted ==
    Len(entered) >= 2 /\ ParseInt(entered[2]).ok /\ ParseInt(entered[2]).value >= 1
FeaturesAccepted ==
    /\ Len(entered) >= 3
    /\ \A i \in 1..Len(SelectedKeys(entered[3])) : SelectedKeys(entered[3])[i] \in FeatureKeys
AnsweredYes == Len(entered) >= 4 /\ Lower(entered[4]) \in {"yes", "y"}

\* C9: the prompts come in the order plan, member count, feature keys,
\* confirmation; the run stops at the first rejected input with no later
\* prompt and no engine call; it returns the engine's cost for the entered
\* plan, keys and member count iff the plan is in the catalog, the member
\* count parses as an integer >= 1, every key is in the catalog and the
\* answer is yes or y in any case, and -1 in every other run; a return of
\* -1 always means failure or cancellation.
C9_ShellFlow ==
    /\ IsPrefix(prompts, PromptOrder)
    /\ Len(entered) = Len(prompts)
    /\ engine_calls <= 1
    /\ Len(prompts) >= 2 => PlanAccepted
    /\ Len(prompts) >= 3 => MembersAccepted
    /\ Len(prompts) >= 4 => FeaturesAccepted
    /\ engine_calls > 0 => (PlanAccepted /\ MembersAccepted /\ FeaturesAccepted)
    /\ sh_pc = "done" =>
         IF PlanAccepted /\ MembersAccepted /\ FeaturesAccepted /\ AnsweredYes
         THEN /\ returned_at = "confirmed"
              /\ engine_calls = 1
              /\ retval >= 0
              /\ retval = CalculateTotalCost(Strip(entered[1]), SelectedKeys(entered[3]),
                                             ParseInt(entered[2]).value).result.cost
         ELSE /\ retval = 0 - 1
              /\ returned_at # "confirmed"

C9_Witness ==
    /\ sh_pc = "done"
    /\ entered = <<" Premium ", "2", " 2 , 4 ", "YES">>
    /\ prompts = PromptOrder
    /\ returned_at = "confirmed"
    /\ retval = 352

\* C10: inside run_gym_system the engine call never raises: at the
\* calculation step the plan and every key have passed the shell's checks
\* against the catalogs the engine uses, so the run never returns through
\* the "Calculation Error" branch.
C10_CalculationNeverFails ==
    /\ returned_at # "calc_error"
    /\ sh_pc = "calc" =>
         /\ plan_choice \in PlanNames
         /\ \A i \in 1..Len(selected_keys) : selected_keys[i] \in FeatureKeys
         /\ ~CalculateTotalCost(plan_choice, selected_keys, members).raised
    /\ engine_calls > 0 => (sh_pc \in {"confirm", "done"} /\ details # NoResult)

C10_Witness ==
    /\ sh_pc = "confirm"
    /\ engine_calls = 1
    /\ selected_keys = <<"1", "3">>
    /\ plan_choice = "Family"
    /\ members = 10
    /\ total_cost > 0

====
